---- MODULE Spec2Model ----
(***************************************************************************)
(* Model of the api-lookup server (main.py): the SQLite store (ctags,      *)
(* ctags_fts kept by triggers, indexed_apis), the ingestion pipeline       *)
(* (clear_api_from_db, index_api_file), the change-aware scheduler         *)
(* (index_apis), generate_ctags and the paginated queries.                 *)
(*                                                                         *)
(* The variables ctags, ctags_fts, indexed_apis and seq are the COMMITTED  *)
(* state of the database file, i.e. what any other connection reads.  A    *)
(* transaction is computed on a record [ctags, ctags_fts, indexed_apis,    *)
(* seq] and either committed (assigned to the variables) or rolled back    *)
(* (dropped).  Operations of the process run one after the other (spec     *)
(* section 5); an ingestion is split at its two commits, so that every     *)
(* state a reader can observe is a state of the model.  Artifact files     *)
(* change only between operations or by the extractor run of               *)
(* generate_ctags.                                                         *)
(***************************************************************************)
EXTENDS Integers, Sequences, FiniteSets, TLC

\* ------------------------------------------------------------------ bounds

\* AUTOINCREMENT ids handed out by ctags: ingestion is cut off beyond it.
MaxId == 6
\* The largest id of table indexed_apis (runs stop short of it).
MaxApiId == 3
\* The last second of the clock.
MaxTime == 2
\* SpecQuery: longest artifact (in lines) ingested into the queried store.
MaxQLines == 3
\* SpecQuery: largest offset and limit passed to a paginated operation.
MaxPage == 4

\* ------------------------------------------------------------------ artifacts

Artifacts == {"A", "B"}

Other(a) == IF a = "A" THEN "B" ELSE "A"

\* SQL NULL of the integer column ctags.line (a tag without a "line" key).
\* ctags line numbers start at 1 and NULL sorts before every integer.
NULL == 0

\* One line of an artifact file, by what json.loads makes of it:
\*   json = "blank"   : line.strip() is empty
\*   json = "invalid" : json.loads raises JSONDecodeError
\*   json = "scalar"  : valid JSON that is not an object ([1], 5, null)
\*   json = "object"  : a JSON object; type is its "_type"
Line(j, t, n, p, k, l) ==
    [json |-> j, type |-> t, name |-> n, path |-> p, kind |-> k, line |-> l]

Blank == Line("blank", "", "", <<>>, "", NULL)
Invalid == Line("invalid", "", "", <<>>, "", NULL)
Scalar == Line("scalar", "", "", <<>>, "", NULL)
NonTag == Line("object", "ptag", "", <<>>, "", NULL)

\* A tag record as the extractor writes it for a source tree r/<api>/...
Tag(api, n, file, k, l) == Line("object", "tag", n, <<"r", api, file>>, k, l)

TagF(a) == Tag(a, "f", "x.h", "function", 1)
TagG(a) == Tag(a, "g", "x.h", "prototype", NULL)
TagH(a) == Tag(a, "f", "x.h", "func", NULL)
TagV(a) == Tag(a, "v", "x.h", "variable", 1)
TagK(a) == Tag(a, "g", "a.h", "function", 2)

\* Every line that occurs in some artifact of the model, in a fixed order.
LineAlphabet ==
    <<Blank, Invalid, Scalar, NonTag,
      TagF("A"), TagG("A"), TagH("A"), TagV("A"), TagK("A"),
      TagF("B"), TagG("B"), TagH("B"), TagV("B"), TagK("B")>>

LineCode(l) == CHOOSE i \in 1..Len(LineAlphabet) : LineAlphabet[i] = l

\* A file of the apis directory: absent, or a sequence of lines.
NoFile == [exists |-> FALSE, lines |-> <<>>]
File(ls) == [exists |-> TRUE, lines |-> ls]

\* The artifact contents the ingestion specification writes to <a>.ctags.
Menu(a) ==
    { <<>>,
      <<Blank, NonTag>>,
      <<TagF(a), Invalid>>,
      <<TagG(a), TagF(a)>>,
      <<TagF(a), Scalar>>,
      <<TagF(Other(a))>> }

\* ------------------------------------------------------------------ hasher

RECURSIVE HashFrom(_, _)
HashFrom(h, ls) ==
    IF ls = <<>> THEN h
    ELSE HashFrom(h * (Len(LineAlphabet) + 1) + LineCode(Head(ls)), Tail(ls))

\* SHA-256 of the file's bytes: a function of the content alone that tells
\* any two different contents apart (positional code of the lines).
calculate_file_hash(f) == HashFrom(0, f.lines)

\* ------------------------------------------------------------------ store

\* The database as one transaction sees it.
Db(c, f, i, s) == [ctags |-> c, ctags_fts |-> f, indexed_apis |-> i, seq |-> s]

\* Table sqlite_sequence: for each AUTOINCREMENT table the largest id it
\* has handed out.
NoSequence == [ctags |-> 0, indexed_apis |-> 0]

\* init_database on a new file: empty tables, no id handed out yet.
init_database == Db({}, {}, {}, NoSequence)

\* Mutant of ctags_ai: the insert trigger indexes nothing.
ctags_ai_none(fts, new) == fts

\* Trigger ctags_ai: AFTER INSERT ON ctags, index the new row's raw_data
\* under its id.
ctags_ai(fts, new) == fts \cup {[rowid |-> new.id, raw_data |-> new.raw_data]}

\* Mutant of ctags_ad: the delete trigger leaves the shadow entry behind.
ctags_ad_keeps(fts, old) == fts

\* Trigger ctags_ad: AFTER DELETE ON ctags, the FTS5 'delete' command with
\* the old row's id and raw_data.
ctags_ad(fts, old) == fts \ {[rowid |-> old.id, raw_data |-> old.raw_data]}

\* Mutant of InsertCtags: id INTEGER PRIMARY KEY without AUTOINCREMENT,
\* the new row gets the largest rowid of the table plus one.
InsertCtags_max_rowid(d, name, input_file, kind, line, api_file, raw_data) ==
    LET top == IF d.ctags = {} THEN 0
               ELSE CHOOSE i \in {r.id : r \in d.ctags} :
                       \A r \in d.ctags : r.id <= i
        new == [id |-> top + 1, name |-> name, input_file |-> input_file,
                kind |-> kind, line |-> line, api_file |-> api_file,
                raw_data |-> raw_data]
    IN  [d EXCEPT !.ctags = @ \cup {new},
                  !.ctags_fts = ctags_ai(@, new),
                  !.seq.ctags = top + 1]

\* INSERT INTO ctags (...) VALUES (...): id INTEGER PRIMARY KEY
\* AUTOINCREMENT takes the next value of sqlite_sequence; the insert and
\* the trigger's write belong to the same transaction.
InsertCtags(d, name, input_file, kind, line, api_file, raw_data) ==
    LET new == [id |-> d.seq.ctags + 1, name |-> name, input_file |-> input_file,
                kind |-> kind, line |-> line, api_file |-> api_file,
                raw_data |-> raw_data]
    IN  [d EXCEPT !.ctags = @ \cup {new},
                  !.ctags_fts = ctags_ai(@, new),
                  !.seq.ctags = @ + 1]

RECURSIVE FireDeletes(_, _)
FireDeletes(fts, rows) ==
    IF rows = {} THEN fts
    ELSE LET old == CHOOSE r \in rows : TRUE
         IN  FireDeletes(ctags_ad(fts, old), rows \ {old})

\* Mutant of DeleteCtags: the delete removes one matching row only.
DeleteCtags_one(d, api_name) ==
    LET match == {r \in d.ctags : r.api_file = api_name}
        gone == IF match = {} THEN {}
                ELSE {CHOOSE r \in match : \A q \in match : r.id <= q.id}
    IN  [d EXCEPT !.ctags = @ \ gone,
                  !.ctags_fts = FireDeletes(@, gone)]

\* DELETE FROM ctags WHERE api_file = ?  (ctags_ad fires for each row)
DeleteCtags(d, api_name) ==
    LET gone == {r \in d.ctags : r.api_file = api_name}
    IN  [d EXCEPT !.ctags = @ \ gone,
                  !.ctags_fts = FireDeletes(@, gone)]

\* Mutant of clear_api_from_db: the DELETE on indexed_apis has no WHERE.
clear_api_from_db_every_entry(d, api_name) ==
    [DeleteCtags(d, api_name) EXCEPT !.indexed_apis = {}]

\* Mutant of clear_api_from_db: only the indexed_apis row is deleted.
clear_api_from_db_entry_only(d, api_name) ==
    [d EXCEPT !.indexed_apis = {e \in @ : e.api_name # api_name}]

\* clear_api_from_db: both deletes, then commit.
clear_api_from_db(d, api_name) ==
    [DeleteCtags(d, api_name) EXCEPT
        !.indexed_apis = {e \in @ : e.api_name # api_name}]

\* get_stored_file_hash: the stored hash, or None (<< >> here: no hash
\* is the empty sequence, a hash is a one-element sequence).
get_stored_file_hash(apis, api_name) ==
    IF \E e \in apis : e.api_name = api_name
    THEN <<(CHOOSE e \in apis : e.api_name = api_name).file_hash>>
    ELSE <<>>

\* Mutant of update_file_hash: the hash is not stored.
update_file_hash_dropped(d, api_name, file_hash, now) == d

\* update_file_hash with the caller's connection: INSERT OR REPLACE on the
\* UNIQUE api_name, no commit of its own.  The row that takes the place
\* of the old one gets the next AUTOINCREMENT id and, indexed_at not
\* being given, the default CURRENT_TIMESTAMP: now, in whole seconds.
update_file_hash(d, api_name, file_hash, now) ==
    [d EXCEPT !.indexed_apis =
        {e \in @ : e.api_name # api_name}
            \cup {[id |-> d.seq.indexed_apis + 1, api_name |-> api_name,
                   file_hash |-> file_hash, indexed_at |-> now]},
              !.seq.indexed_apis = @ + 1]

\* ------------------------------------------------------------------ ingestion

\* input_file.parts.index(api_name): 0 when api_name is no part of the
\* path (tuple.index raises ValueError).
PartIndex(parts, api_name) ==
    IF \E i \in 1..Len(parts) : parts[i] = api_name
    THEN CHOOSE i \in 1..Len(parts) :
            /\ parts[i] = api_name
            /\ \A j \in 1..(i - 1) : parts[j] # api_name
    ELSE 0

\* "/".join(input_file.parts[index:]): the parts from the api name on.
RelativePath(parts, api_name) ==
    SubSeq(parts, PartIndex(parts, api_name), Len(parts))

\* The loop of index_api_file over the lines of the open file, inside one
\* transaction d.  error: the exception other than JSONDecodeError that
\* left the loop (AttributeError of .get on a non-object, ValueError of
\* parts.index), "" when the loop ran to its end.
RECURSIVE IndexLines(_, _, _, _, _)
IndexLines(d, api_name, lines, line_count, processed_count) ==
    IF lines = <<>>
    THEN [error |-> "", db |-> d,
          line_count |-> line_count, processed_count |-> processed_count]
    ELSE
      LET line == Head(lines)
          rest == Tail(lines)
      IN
      IF line.json = "blank"
      THEN IndexLines(d, api_name, rest, line_count, processed_count)
      ELSE IF line.json = "invalid"
      THEN IndexLines(d, api_name, rest, line_count + 1, processed_count)
      ELSE IF line.json = "scalar"
      THEN [error |-> "AttributeError", db |-> d,
            line_count |-> line_count + 1, processed_count |-> processed_count]
      ELSE IF line.type # "tag"
      THEN IndexLines(d, api_name, rest, line_count + 1, processed_count)
      ELSE IF PartIndex(line.path, api_name) = 0
      THEN [error |-> "ValueError", db |-> d,
            line_count |-> line_count + 1,
            processed_count |-> processed_count + 1]
      ELSE IndexLines(
             InsertCtags(d, line.name, RelativePath(line.path, api_name),
                         line.kind, line.line, api_name, line),
             api_name, rest, line_count + 1, processed_count + 1)

\* Mutant of FillTransaction: the hash is stored whether the loop raised
\* or not (update_file_hash on its own connection, in a finally).
FillTransaction_hash_always(d, api_name, file, readable, now) ==
    IF ~readable \/ ~file.exists
    THEN [error |-> "OSError", db |-> d,
          line_count |-> 0, processed_count |-> 0]
    ELSE LET r == IndexLines(d, api_name, file.lines, 0, 0)
         IN  IF r.error # ""
             THEN [r EXCEPT !.db =
                     update_file_hash(d, api_name, calculate_file_hash(file),
                                      now)]
             ELSE [r EXCEPT !.db =
                     update_file_hash(r.db, api_name, calculate_file_hash(file),
                                      now)]

\* Mutant of FillTransaction: the hash is stored only when a tag record
\* was inserted.
FillTransaction_hash_if_records(d, api_name, file, readable, now) ==
    IF ~readable \/ ~file.exists
    THEN [error |-> "OSError", db |-> d,
          line_count |-> 0, processed_count |-> 0]
    ELSE LET r == IndexLines(d, api_name, file.lines, 0, 0)
         IN  IF r.error # ""
             THEN [r EXCEPT !.db = d]
             ELSE IF r.processed_count = 0
             THEN r
             ELSE [r EXCEPT !.db =
                     update_file_hash(r.db, api_name, calculate_file_hash(file),
                                      now)]

\* Mutant of FillTransaction: an exception in the loop commits the rows
\* inserted so far instead of rolling back.
FillTransaction_partial(d, api_name, file, readable, now) ==
    IF ~readable \/ ~file.exists
    THEN [error |-> "OSError", db |-> d,
          line_count |-> 0, processed_count |-> 0]
    ELSE LET r == IndexLines(d, api_name, file.lines, 0, 0)
         IN  IF r.error # ""
             THEN r
             ELSE [r EXCEPT !.db =
                     update_file_hash(r.db, api_name, calculate_file_hash(file),
                                      now)]

\* The second transaction of index_api_file (after clear_api_from_db has
\* committed): open the file, insert the tag lines, store the hash,
\* commit.  readable = FALSE: open() raises OSError.  On any exception the
\* connection's context manager rolls back and the exception propagates.
FillTransaction(d, api_name, file, readable, now) ==
    IF ~readable \/ ~file.exists
    THEN [error |-> "OSError", db |-> d,
          line_count |-> 0, processed_count |-> 0]
    ELSE LET r == IndexLines(d, api_name, file.lines, 0, 0)
         IN  IF r.error # ""
             THEN [r EXCEPT !.db = d]
             ELSE [r EXCEPT !.db =
                     update_file_hash(r.db, api_name, calculate_file_hash(file),
                                      now)]

\* ------------------------------------------------------------------ state

VARIABLES
    ctags,          \* committed rows of table ctags
    ctags_fts,      \* committed entries of the FTS5 index ctags_fts
    indexed_apis,   \* committed rows of table indexed_apis
    seq,            \* committed sqlite_sequence value of ctags
    files,          \* the apis directory: <api>.ctags for each artifact
    pc,             \* where the running operation stands
    caller,         \* the operation that runs index_api_file
    files_to_index, \* index_apis: the files classified as changed
    pos,            \* number of files_to_index handed to index_api_file
    last,           \* the last index_api_file call of this operation
    start,          \* ctags and indexed_apis when the running operation began
    unchanged,      \* no file or row was written since index_apis last returned
    request,        \* the arguments of the query being answered
    result,         \* what the last operation returned
    writers         \* concurrent index_api_file calls: artifact and position

vars == <<ctags, ctags_fts, indexed_apis, seq, files, pc, caller,
          files_to_index, pos, last, start, unchanged, request, result,
          writers>>

store == <<ctags, ctags_fts, indexed_apis, seq>>
control == <<pc, caller, files_to_index, pos, last, start, request>>

\* What CURRENT_TIMESTAMP can read, in whole seconds, when the
\* indexed_apis table holds the rows apis.  The clock is not behind any
\* row of the table.  Nothing reads indexed_at but ORDER BY indexed_at, so
\* only the order and the ties of the values in the table matter, and the
\* seconds are numbered accordingly: the first row of an empty table is
\* written in second 1, a further row in the second of the latest row or
\* in the next one.
Now(apis) ==
    {t \in 1..MaxTime :
        /\ \A e \in apis : e.indexed_at <= t
        /\ (t = 1) \/ (\E e \in apis : e.indexed_at + 1 >= t)}

\* The committed database, as a reader's connection sees it.
Committed == Db(ctags, ctags_fts, indexed_apis, seq)

Commit(d) ==
    /\ ctags' = d.ctags
    /\ ctags_fts' = d.ctags_fts
    /\ indexed_apis' = d.indexed_apis
    /\ seq' = d.seq

\* What one index_api_file call came to: done is set when it has returned
\* or raised, error names the exception that left it.
NoReport == [api |-> "", done |-> FALSE, error |-> "",
             line_count |-> 0, processed_count |-> 0]

NoSnapshot == [ctags |-> {}, ctags_fts |-> {}, indexed_apis |-> {},
               seq |-> NoSequence]
Snapshot == [ctags |-> ctags, ctags_fts |-> ctags_fts,
             indexed_apis |-> indexed_apis, seq |-> seq]

\* The return value of an operation.  op names it; ok is FALSE when it
\* reports {success: False, ...} or when an exception left it; the other
\* fields are those of a query's dictionary.  returns tells what kind of
\* value came back: "dict" is a dictionary that has a count.
Result(op, ok, error, items, count, offset, limit) ==
    [op |-> op, ok |-> ok, error |-> error, items |-> items,
     count |-> count, offset |-> offset, limit |-> limit,
     returns |-> "dict"]

NoResult == Result("", TRUE, "", <<>>, 0, 0, 0)

\* The other kinds of value: a bare list (lookup), None (lookup), a
\* dictionary without a count key (list_indexed_apis), and no value at
\* all, the call having raised the exception named by error.
ReturnKinds == {"dict", "list", "None", "dict_no_count", "raise"}

Returns(kind, res) == [res EXCEPT !.returns = kind]

Raised(op, error) == Returns("raise", Result(op, FALSE, error, <<>>, 0, 0, 0))

\* A call of a query: the operation, its first argument (name, api_name
\* or file_path), offset and limit, and the scan order SQLite's planner
\* has settled on for it.
Request(op, key, offset, limit, plan) ==
    [op |-> op, key |-> key, offset |-> offset, limit |-> limit, plan |-> plan]

NoRequest == Request("", "", 0, 0, "")

\* No index_api_file call other than the running operation's.
NoWriters == <<>>

Init ==
    /\ ctags = init_database.ctags
    /\ ctags_fts = init_database.ctags_fts
    /\ indexed_apis = init_database.indexed_apis
    /\ seq = init_database.seq
    /\ files = [a \in Artifacts |-> NoFile]
    /\ pc = "idle"
    /\ caller = ""
    /\ files_to_index = <<>>
    /\ pos = 0
    /\ last = NoReport
    /\ start = NoSnapshot
    /\ unchanged = FALSE
    /\ request = NoRequest
    /\ result = NoResult
    /\ writers = NoWriters

\* ------------------------------------------------------------------ files

\* Somebody replaces <a>.ctags between two operations of the server.
WriteFile(a, c) ==
    /\ pc = "idle"
    /\ files[a] # File(c)
    /\ files' = [files EXCEPT ![a] = File(c)]
    /\ unchanged' = FALSE
    /\ UNCHANGED <<store, control, result, writers>>

\* ------------------------------------------------------------------ index_apis

\* apis_dir.glob("*.ctags") lists the directory in an order the file
\* system chooses.
GlobOrders == {o \in [1..Cardinality(Artifacts) -> Artifacts] :
                 \A i, j \in DOMAIN o : i # j => o[i] # o[j]}

Exists(a) == files[a].exists

\* Mutant of UpToDate: any stored hash counts as up to date.
UpToDate_any(apis, a) == get_stored_file_hash(apis, a) # <<>>

\* stored_hash == current_hash of the classification loop.
UpToDate(apis, a) ==
    get_stored_file_hash(apis, a) = <<calculate_file_hash(files[a])>>

RECURSIVE SumLines(_)
SumLines(S) ==
    IF S = {} THEN 0
    ELSE LET a == CHOOSE x \in S : TRUE
         IN  Len(files[a].lines) + SumLines(S \ {a})

\* index_apis up to the end of the classification loop.  A missing
\* directory or one without *.ctags files returns at once.
IndexApisStart ==
    /\ pc = "idle"
    /\ seq.ctags + SumLines(Artifacts) <= MaxId
    /\ seq.indexed_apis
         + Cardinality({a \in Artifacts :
                           Exists(a) /\ ~UpToDate(indexed_apis, a)})
         <= MaxApiId
    /\ caller' = "index_apis"
    /\ pos' = 0
    /\ last' = NoReport
    /\ start' = Snapshot
    /\ IF \A a \in Artifacts : ~Exists(a)
       THEN /\ pc' = "returned"
            /\ files_to_index' = <<>>
            /\ result' = Result("index_apis", TRUE, "no_files", <<>>, 0, 0, 0)
       ELSE /\ \E order \in GlobOrders :
                 files_to_index' =
                    SelectSeq(order, LAMBDA a :
                        Exists(a) /\ ~UpToDate(indexed_apis, a))
            /\ pc' = IF files_to_index' = <<>> THEN "summary" ELSE "loop"
            /\ result' = NoResult
    /\ UNCHANGED <<store, files, unchanged, request, writers>>

\* index_api_file, first commit: clear_api_from_db(api_name).
ClearStep ==
    /\ pc = "loop"
    /\ pos < Len(files_to_index)
    /\ pos' = pos + 1
    /\ Commit(clear_api_from_db(Committed, files_to_index[pos + 1]))
    /\ pc' = "cleared"
    /\ last' = [NoReport EXCEPT !.api = files_to_index[pos + 1]]
    /\ unchanged' = FALSE
    /\ UNCHANGED <<files, caller, files_to_index, start, request, result,
                   writers>>

\* index_api_file, second transaction.  It commits and the caller goes
\* on, or it raises: index_apis lets the exception through (the run
\* ends there), generate_ctags turns it into {success: False}.
FillStep ==
    /\ pc = "cleared"
    /\ \E readable \in BOOLEAN : \E now \in Now(indexed_apis) :
         LET api_name == files_to_index[pos]
             r == FillTransaction(Committed, api_name, files[api_name],
                                  readable, now)
         IN  /\ Commit(r.db)
             /\ last' = [api |-> api_name, done |-> TRUE, error |-> r.error,
                         line_count |-> r.line_count,
                         processed_count |-> r.processed_count]
             /\ IF r.error # ""
                THEN /\ pc' = "returned"
                     /\ result' = IF caller = "index_apis"
                                   THEN Raised(caller, "exception")
                                   ELSE Result(caller, FALSE, "unexpected",
                                               <<>>, 0, 0, 0)
                ELSE IF caller = "generate_ctags"
                THEN /\ pc' = "returned"
                     /\ result' = Result(caller, TRUE, "", <<>>, 0, 0, 0)
                ELSE /\ pc' = IF pos = Len(files_to_index)
                              THEN "summary" ELSE "loop"
                     /\ result' = result
    /\ UNCHANGED <<files, caller, files_to_index, pos, start, unchanged,
                   request, writers>>

\* index_apis after the loop: SELECT COUNT(*) FROM ctags, and return.
Summary ==
    /\ pc = "summary"
    /\ pc' = "returned"
    /\ result' = Result("index_apis", TRUE, "", <<>>, Cardinality(ctags), 0, 0)
    /\ UNCHANGED <<store, files, caller, files_to_index, pos, last, start,
                   unchanged, request, writers>>

\* ------------------------------------------------------------------ generate_ctags

\* What the extractor run can come to: the include directory is missing
\* or is a file, the ctags command is not found, ctags exits non-zero
\* (having left apis/<name>.ctags alone, or having written to it), or it
\* exits 0 having written apis/<name>.ctags.
Outcomes == {"not_exist", "not_dir", "not_found", "failed", "failed_written",
             "ok"}

\* The error generate_ctags reports for an outcome.
ErrorOf(outcome) == IF outcome = "failed_written" THEN "failed" ELSE outcome

\* Mutant of GenerateCtags: the artifact is cleared before the extractor
\* is run.
GenerateCtags_clears_first(a, outcome, c) ==
    /\ pc = "idle"
    /\ seq.ctags + Len(c) <= MaxId
    /\ seq.indexed_apis + 1 <= MaxApiId
    /\ caller' = "generate_ctags"
    /\ last' = NoReport
    /\ start' = Snapshot
    /\ pos' = 0
    /\ Commit(clear_api_from_db(Committed, a))
    /\ IF outcome = "ok"
       THEN /\ files' = [files EXCEPT ![a] = File(c)]
            /\ files_to_index' = <<a>>
            /\ pc' = "loop"
            /\ result' = NoResult
            /\ unchanged' = FALSE
       ELSE /\ files' = IF outcome = "failed_written"
                        THEN [files EXCEPT ![a] = File(c)] ELSE files
            /\ files_to_index' = <<>>
            /\ pc' = "returned"
            /\ result' = Result("generate_ctags", FALSE, ErrorOf(outcome),
                                <<>>, 0, 0, 0)
            /\ unchanged' = FALSE
    /\ UNCHANGED <<request, writers>>

\* generate_ctags(include_directory) for a directory named a, up to the
\* call of index_api_file(output_file).
GenerateCtags(a, outcome, c) ==
    /\ pc = "idle"
    /\ seq.ctags + Len(c) <= MaxId
    /\ seq.indexed_apis + 1 <= MaxApiId
    /\ caller' = "generate_ctags"
    /\ last' = NoReport
    /\ start' = Snapshot
    /\ pos' = 0
    /\ IF outcome = "ok"
       THEN /\ files' = [files EXCEPT ![a] = File(c)]
            /\ files_to_index' = <<a>>
            /\ pc' = "loop"
            /\ result' = NoResult
            /\ unchanged' = FALSE
       ELSE /\ files' = IF outcome = "failed_written"
                        THEN [files EXCEPT ![a] = File(c)] ELSE files
            /\ files_to_index' = <<>>
            /\ pc' = "returned"
            /\ result' = Result("generate_ctags", FALSE, ErrorOf(outcome),
                                <<>>, 0, 0, 0)
            /\ unchanged' = IF outcome = "failed_written"
                            THEN FALSE ELSE unchanged
    /\ UNCHANGED <<store, request, writers>>

\* The operation has returned; the server is ready for the next one.
Return ==
    /\ pc = "returned"
    /\ pc' = "idle"
    /\ caller' = ""
    /\ files_to_index' = <<>>
    /\ pos' = 0
    /\ last' = NoReport
    /\ start' = NoSnapshot
    /\ request' = NoRequest
    /\ result' = NoResult
    /\ unchanged' = IF caller = "index_apis" THEN result.ok ELSE unchanged
    /\ UNCHANGED <<store, files, writers>>

Next ==
    \/ \E a \in Artifacts : \E c \in Menu(a) : WriteFile(a, c)
    \/ IndexApisStart
    \/ ClearStep
    \/ FillStep
    \/ Summary
    \/ \E a \in Artifacts : \E o \in Outcomes : \E c \in Menu(a) :
          GenerateCtags(a, o, c)
    \/ Return

Spec == Init /\ [][Next]_vars

\* ------------------------------------------------------------------ queries

Min(a, b) == IF a <= b THEN a ELSE b
Max(a, b) == IF a >= b THEN a ELSE b

\* Mutant of LimitOffset: the page runs one row past the limit.
LimitOffset_inclusive(rows, limit, offset) ==
    LET skip == Max(offset, 0)
        stop == IF limit < 0 THEN Len(rows)
                ELSE Min(Len(rows), skip + limit + 1)
    IN  SubSeq(rows, skip + 1, stop)

\* Mutant of LimitOffset: the limit is applied before the offset.
LimitOffset_limit_first(rows, limit, offset) ==
    LET skip == Max(offset, 0)
        stop == IF limit < 0 THEN Len(rows) ELSE Min(Len(rows), limit)
    IN  SubSeq(rows, skip + 1, stop)

\* SQL "LIMIT ? OFFSET ?" on an ordered result: a negative OFFSET skips
\* nothing, a negative LIMIT does not limit.
LimitOffset(rows, limit, offset) ==
    LET skip == Max(offset, 0)
        stop == IF limit < 0 THEN Len(rows) ELSE Min(Len(rows), skip + limit)
    IN  SubSeq(rows, skip + 1, stop)

\* The kinds list_functions_by_file accepts, in the order of the BINARY
\* collation (the order of an idx_kind scan).
KindOrder == <<"func", "function", "prototype">>
Callable == {KindOrder[i] : i \in DOMAIN KindOrder}
KindRank(k) == CHOOSE i \in DOMAIN KindOrder : KindOrder[i] = k

\* The path components of the model in the order of the BINARY collation.
\* None is a prefix of another, so comparing two joined paths comes down
\* to comparing their components in turn.
PartOrder == <<"A", "B", "a.h", "r", "x.h">>
PartRank(x) == CHOOSE i \in DOMAIN PartOrder : PartOrder[i] = x

\* p < q for two input_file values.
PathBefore(p, q) ==
    \E i \in 1..Len(q) :
        /\ \A j \in 1..(i - 1) : j <= Len(p) /\ p[j] = q[j]
        /\ \/ i = Len(p) + 1
           \/ i <= Len(p) /\ PartRank(p[i]) < PartRank(q[i])

\* ORDER BY line leaves rows of equal line in the order the scan produced
\* them: by rowid for a table scan, by (kind, rowid) for the idx_kind
\* search SQLite's planner picks for the OR over kind.
Plans == {"scan", "idx_kind"}

ScanBefore(plan, r, q) ==
    IF plan = "idx_kind"
    THEN \/ KindRank(r.kind) < KindRank(q.kind)
         \/ r.kind = q.kind /\ r.id < q.id
    ELSE r.id < q.id

LineBefore(plan, r, q) ==
    \/ r.line < q.line
    \/ r.line = q.line /\ ScanBefore(plan, r, q)

RECURSIVE OrderByLine(_, _)
OrderByLine(rows, plan) ==
    IF rows = {} THEN <<>>
    ELSE LET first == CHOOSE r \in rows :
                          \A q \in rows \ {r} : LineBefore(plan, r, q)
         IN  <<first>> \o OrderByLine(rows \ {first}, plan)

RECURSIVE OrderByPath(_)
OrderByPath(paths) ==
    IF paths = {} THEN <<>>
    ELSE LET first == CHOOSE x \in paths :
                          \A y \in paths \ {x} : PathBefore(x, y)
         IN  <<first>> \o OrderByPath(paths \ {first})

RECURSIVE OrderByRowid(_)
OrderByRowid(rows) ==
    IF rows = {} THEN <<>>
    ELSE LET first == CHOOSE r \in rows : \A q \in rows : r.id <= q.id
         IN  <<first>> \o OrderByRowid(rows \ {first})

\* The terms the FTS5 tokenizer finds in a row's raw_data (the JSON text
\* of a tag line): its _type, name and kind and the components of its
\* path.
Tokens(raw) ==
    ({raw.type, raw.name, raw.kind} \cup {raw.path[i] : i \in DOMAIN raw.path})
        \ {""}

\* Mutant of FunctionRows: the SELECT has no condition on kind.
FunctionRows_any_kind(d, plan, file_path, offset, limit) ==
    LimitOffset(
        OrderByLine({r \in d.ctags : r.input_file = file_path}, plan),
        limit, offset)

\* The rows of the SELECT of list_functions_by_file, before the names are
\* taken from them.
FunctionRows(d, plan, file_path, offset, limit) ==
    LimitOffset(
        OrderByLine({r \in d.ctags :
                        r.input_file = file_path /\ r.kind \in Callable}, plan),
        limit, offset)

\* Mutant of list_functions_by_file: count is the number of all matches.
list_functions_by_file_total(d, plan, file_path, offset, limit) ==
    LET rows == FunctionRows(d, plan, file_path, offset, limit)
        functions == [i \in DOMAIN rows |-> rows[i].name]
    IN  Result("list_functions_by_file", TRUE, "", functions,
               Len(FunctionRows(d, plan, file_path, 0, -1)), offset, limit)

\* list_functions_by_file: the names of the page and their number.
list_functions_by_file(d, plan, file_path, offset, limit) ==
    LET rows == FunctionRows(d, plan, file_path, offset, limit)
        functions == [i \in DOMAIN rows |-> rows[i].name]
    IN  Result("list_functions_by_file", TRUE, "", functions,
               Len(functions), offset, limit)

\* Mutant of list_api_files: the SELECT has no condition on api_file.
list_api_files_every_api(d, api_name, offset, limit) ==
    LET file_paths ==
            LimitOffset(
                OrderByPath({r.input_file : r \in
                    {q \in d.ctags : q.input_file # <<>>}}),
                limit, offset)
    IN  Result("list_api_files", TRUE, "", file_paths,
               Len(file_paths), offset, limit)

\* list_api_files: the page of the distinct input_file values of an api.
list_api_files(d, api_name, offset, limit) ==
    LET file_paths ==
            LimitOffset(
                OrderByPath({r.input_file : r \in
                    {q \in d.ctags : q.api_file = api_name
                                       /\ q.input_file # <<>>}}),
                limit, offset)
    IN  Result("list_api_files", TRUE, "", file_paths,
               Len(file_paths), offset, limit)

\* The rows of the SELECT of search_declarations: the entries of
\* ctags_fts that match, in rowid order, joined to ctags on the id.
SearchRows(d, name, offset, limit) ==
    LimitOffset(
        OrderByRowid({r \in d.ctags :
            \E e \in d.ctags_fts :
                e.rowid = r.id /\ name \in Tokens(e.raw_data)}),
        limit, offset)

\* The query strings FTS5 does not parse as a MATCH expression; of those
\* the model calls it with, the empty string and the bare operator AND.
FtsRejects(name) == name \in {"", "AND"}

\* search_declarations: one match per row of the page, and their number.
\* cursor.execute raises sqlite3.OperationalError on a string FTS5
\* rejects, and nothing in the function catches it.
search_declarations(d, name, offset, limit) ==
    IF FtsRejects(name) THEN Raised("search_declarations", "OperationalError")
    ELSE
    LET rows == SearchRows(d, name, offset, limit)
        matches == [i \in DOMAIN rows |->
                      [name |-> rows[i].name, kind |-> rows[i].kind,
                       file |-> rows[i].input_file, line |-> rows[i].line,
                       api |-> rows[i].api_file,
                       definition |-> rows[i].raw_data]]
    IN  Result("search_declarations", TRUE, "", matches,
               Len(matches), offset, limit)

\* Mutant of lookup: the first matching row only (fetchone).
lookup_first(d, query) ==
    LET rows == OrderByRowid({r \in d.ctags : r.name = query})
    IN  IF rows # <<>>
        THEN Returns("list", Result("lookup", TRUE, "",
                        <<[name |-> rows[1].name, signature |-> "",
                           return_type |-> ""]>>, 1, 0, 0))
        ELSE Returns("None", Result("lookup", TRUE, "", <<>>, 0, 0, 0))

\* Mutant of lookup: the list of matches is returned also when it is
\* empty.
lookup_always_list(d, query) ==
    LET rows == OrderByRowid({r \in d.ctags : r.name = query})
        matches == [i \in DOMAIN rows |->
                      [name |-> rows[i].name, signature |-> "",
                       return_type |-> ""]]
    IN  Returns("list", Result("lookup", TRUE, "", matches,
                               Len(matches), 0, 0))

\* lookup: one match per row whose name is the query, in the rowid order
\* of the idx_name search; None when there is no row.  The tag lines of
\* the model carry no signature and no typeref, which lookup turns to "".
lookup(d, query) ==
    LET rows == OrderByRowid({r \in d.ctags : r.name = query})
        matches == [i \in DOMAIN rows |->
                      [name |-> rows[i].name, signature |-> "",
                       return_type |-> ""]]
    IN  IF rows # <<>>
        THEN Returns("list", Result("lookup", TRUE, "", matches,
                                    Len(matches), 0, 0))
        ELSE Returns("None", Result("lookup", TRUE, "", <<>>, 0, 0, 0))

\* Mutant of OrderByIndexedAt: ORDER BY api_name.
RECURSIVE OrderByIndexedAt_by_name(_)
OrderByIndexedAt_by_name(apis) ==
    IF apis = {} THEN <<>>
    ELSE LET first == CHOOSE e \in apis :
                         \A q \in apis \ {e} :
                            PartRank(e.api_name) < PartRank(q.api_name)
         IN  <<first.api_name>> \o OrderByIndexedAt_by_name(apis \ {first})

\* SELECT api_name FROM indexed_apis ORDER BY indexed_at: a scan of the
\* table in rowid order and a sort on indexed_at, which leaves rows of the
\* same second in the order of the scan.
RECURSIVE OrderByIndexedAt(_)
OrderByIndexedAt(apis) ==
    IF apis = {} THEN <<>>
    ELSE LET first == CHOOSE e \in apis :
                         \A q \in apis \ {e} :
                            \/ e.indexed_at < q.indexed_at
                            \/ e.indexed_at = q.indexed_at /\ e.id < q.id
         IN  <<first.api_name>> \o OrderByIndexedAt(apis \ {first})

\* list_indexed_apis, rows being the api_name column as fetched: the
\* names and their number, or no names and a message in place of the
\* number.
list_indexed_apis(rows) ==
    IF rows = <<>>
    THEN Returns("dict_no_count",
                 Result("list_indexed_apis", TRUE, "", <<>>, 0, 0, 0))
    ELSE Result("list_indexed_apis", TRUE, "", rows, Len(rows), 0, 0)

\* ------------------------------------------------------------------ the queried store

\* The tag lines of the artifacts that are queried.
QLines(a) == {TagF(a), TagG(a), TagH(a), TagV(a), TagK(a)}

\* Artifact contents of at most n lines, no line twice.
QContents(a, n) ==
    UNION {{c \in [1..k -> QLines(a)] :
               \A i, j \in 1..k : i # j => c[i] # c[j]} : k \in 0..n}

\* index_api_file run to its end on a database: both transactions.
index_api_file(d, api_name, file, now) ==
    FillTransaction(clear_api_from_db(d, api_name), api_name, file, TRUE,
                    now).db

\* The arguments the queries are called with.
PageArgs == (-1)..MaxPage
Terms == {"f", "g", "function", "tag", "none", "AND"}
ApiNames == Artifacts \cup {"none"}
Names == {"f", "g", "F", "none"}
FilePaths == {<<"A", "x.h">>, <<"A", "a.h">>, <<"B", "a.h">>, <<"x.h">>}

\* A server whose apis directory holds A.ctags, B.ctags, both or neither,
\* those it holds indexed in this order.
InitQuery ==
    \E fa \in {NoFile} \cup {File(c) : c \in QContents("A", MaxQLines)} :
    \E fb \in {NoFile, File(<<>>), File(<<TagK("B"), TagF("B")>>)} :
        LET da == IF fa.exists
                  THEN index_api_file(init_database, "A", fa, 1)
                  ELSE init_database
            d == IF fb.exists THEN index_api_file(da, "B", fb, 1) ELSE da
        IN  /\ ctags = d.ctags
            /\ ctags_fts = d.ctags_fts
            /\ indexed_apis = d.indexed_apis
            /\ seq = d.seq
            /\ files = [a \in Artifacts |-> IF a = "A" THEN fa ELSE fb]
            /\ pc = "idle"
            /\ caller = ""
            /\ files_to_index = <<>>
            /\ pos = 0
            /\ last = NoReport
            /\ start = NoSnapshot
            /\ unchanged = FALSE
            /\ request = NoRequest
            /\ result = NoResult
            /\ writers = NoWriters

Answer(req, res) ==
    /\ pc = "idle"
    /\ pc' = "returned"
    /\ caller' = req.op
    /\ request' = req
    /\ result' = res
    /\ UNCHANGED <<store, files, files_to_index, pos, last, start, unchanged,
                   writers>>

SearchDeclarations(name, offset, limit) ==
    Answer(Request("search_declarations", name, offset, limit, "scan"),
           search_declarations(Committed, name, offset, limit))

ListApiFiles(api_name, offset, limit) ==
    Answer(Request("list_api_files", api_name, offset, limit, "scan"),
           list_api_files(Committed, api_name, offset, limit))

ListFunctionsByFile(plan, file_path, offset, limit) ==
    Answer(Request("list_functions_by_file", file_path, offset, limit, plan),
           list_functions_by_file(Committed, plan, file_path, offset, limit))

Lookup(query) ==
    Answer(Request("lookup", query, 0, 0, "scan"), lookup(Committed, query))

ListIndexedApis ==
    Answer(Request("list_indexed_apis", "", 0, 0, "scan"),
           list_indexed_apis(OrderByIndexedAt(indexed_apis)))

NextQuery ==
    \/ \E q \in Names : Lookup(q)
    \/ ListIndexedApis
    \/ \E n \in Terms : \E o, l \in PageArgs : SearchDeclarations(n, o, l)
    \/ \E a \in ApiNames : \E o, l \in PageArgs : ListApiFiles(a, o, l)
    \/ \E plan \in Plans : \E f \in FilePaths : \E o, l \in PageArgs :
          ListFunctionsByFile(plan, f, o, l)
    \/ Return

SpecQuery == InitQuery /\ [][NextQuery]_vars

\* ------------------------------------------------------------------ concurrent ingestion

\* Two server processes started in the same directory share the database
\* file; each runs index_api_file, on its own connections.  Nothing in
\* the code keeps one from running while the other does: the only
\* exclusion is SQLite's, one write transaction at a time, so the two
\* commits of each call are the steps that interleave.
Writers == {"w1", "w2"}

Writer(api, at, error) == [api |-> api, pc |-> at, error |-> error]

\* The directory holds A.ctags and B.ctags; the database is new, or holds
\* an earlier content of A.  w1 ingests A, w2 either artifact.
InitWriters ==
    \E ca \in Menu("A") : \E cb \in Menu("B") :
    \E earlier \in BOOLEAN : \E a2 \in Artifacts :
        LET d == IF earlier
                 THEN index_api_file(init_database, "A",
                                     File(<<TagG("A"), TagF("A")>>), 1)
                 ELSE init_database
        IN  /\ ctags = d.ctags
            /\ ctags_fts = d.ctags_fts
            /\ indexed_apis = d.indexed_apis
            /\ seq = d.seq
            /\ files = [a \in Artifacts |->
                          IF a = "A" THEN File(ca) ELSE File(cb)]
            /\ pc = "idle"
            /\ caller = ""
            /\ files_to_index = <<>>
            /\ pos = 0
            /\ last = NoReport
            /\ start = NoSnapshot
            /\ unchanged = FALSE
            /\ request = NoRequest
            /\ result = NoResult
            /\ writers = [w \in Writers |->
                            Writer(IF w = "w1" THEN "A" ELSE a2, "start", "")]

\* index_api_file of writer w, first commit: clear_api_from_db.
WriterClear(w) ==
    /\ writers[w].pc = "start"
    /\ Commit(clear_api_from_db(Committed, writers[w].api))
    /\ writers' = [writers EXCEPT ![w].pc = "cleared"]
    /\ UNCHANGED <<files, control, unchanged, result>>

\* index_api_file of writer w, second transaction: it commits, or rolls
\* back and raises.
WriterFill(w) ==
    /\ writers[w].pc = "cleared"
    /\ seq.ctags + Len(files[writers[w].api].lines) <= MaxId
    /\ \E now \in Now(indexed_apis) :
       LET r == FillTransaction(Committed, writers[w].api,
                                files[writers[w].api], TRUE, now)
       IN  /\ Commit(r.db)
           /\ writers' = [writers EXCEPT ![w] = Writer(@.api, "done", r.error)]
    /\ UNCHANGED <<files, control, unchanged, result>>

NextWriters ==
    \/ \E w \in Writers : WriterClear(w)
    \/ \E w \in Writers : WriterFill(w)

SpecWriters == InitWriters /\ [][NextWriters]_vars

\* ------------------------------------------------------------------ properties

RowsOf(rows, a) == {r \in rows : r.api_file = a}

Ids(rows) == {r.id : r \in rows}

\* The raw_data of a set of rows, in the order of their ids.
RECURSIVE PayloadsById(_)
PayloadsById(rows) ==
    IF rows = {} THEN <<>>
    ELSE LET first == CHOOSE r \in rows : \A q \in rows : r.id <= q.id
         IN  <<first.raw_data>> \o PayloadsById(rows \ {first})

IsTagLine(l) == l.json = "object" /\ l.type = "tag"
IsMalformed(l) == l.json \in {"invalid", "scalar"}
IsNonBlank(l) == l.json # "blank"

\* The tag records of an artifact's content, in file order.
TagLines(ls) == SelectSeq(ls, IsTagLine)

\* An index_api_file call of the running operation has returned normally.
Ingested == last.done /\ last.error = ""

\* C1: a second index_apis run, started after a run that returned and with
\* no file or row written in between, hands no artifact to index_api_file
\* (files_to_index is empty, every artifact is skipped), leaves ctags as
\* it was, and reports the row count the first run left.
C1_Idempotent ==
    (caller = "index_apis" /\ unchanged) =>
        /\ files_to_index = <<>>
        /\ pos = 0
        /\ ~last.done
        /\ ctags = start.ctags
        /\ (pc = "returned" /\ result.error = ""
              => result.count = Cardinality(start.ctags))

C1_Witness ==
    /\ caller = "index_apis" /\ unchanged /\ pc = "returned"
    /\ result.error = ""
    /\ \A a \in Artifacts : Exists(a)
    /\ \A a \in Artifacts : RowsOf(ctags, a) # {}

\* C2: once index_api_file has returned for an artifact, whoever called
\* it, the rows stored under that api_file are exactly the tag records of
\* the file just read, in file order; none of the rows the artifact had
\* before is left, so the count is that of the new content alone.
C2_Replacement ==
    Ingested =>
        LET now == RowsOf(ctags, last.api)
        IN  /\ PayloadsById(now) = TagLines(files[last.api].lines)
            /\ Cardinality(now) = Len(TagLines(files[last.api].lines))
            /\ now \cap start.ctags = {}

C2_Witness ==
    /\ Ingested
    /\ RowsOf(start.ctags, last.api) # {}
    /\ RowsOf(ctags, last.api) # {}
    /\ PayloadsById(RowsOf(start.ctags, last.api))
          # PayloadsById(RowsOf(ctags, last.api))

\* C3: in every committed state the shadow index holds exactly one entry
\* per live ctags row, under the row's id and with the row's raw_data:
\* no entry of a deleted row, no live row without an entry.
C3_ShadowIndex ==
    ctags_fts = {[rowid |-> r.id, raw_data |-> r.raw_data] : r \in ctags}

\* a failed run that rolled back after the clear, next to another
\* artifact's live rows
C3_Witness ==
    /\ last.done /\ last.error = "AttributeError"
    /\ RowsOf(start.ctags, last.api) # {}
    /\ ctags # {}

\* C4: in every committed state there is at most one indexed_apis row per
\* api_name; an artifact with a stored hash d holds exactly the tag
\* records of the content whose hash is d, and an artifact without a
\* stored hash holds no rows.
C4_DigestRecords ==
    \A a \in Artifacts :
        LET entries == {e \in indexed_apis : e.api_name = a}
        IN  /\ Cardinality(entries) <= 1
            /\ entries = {} => RowsOf(ctags, a) = {}
            /\ \A e \in entries :
                 \E c \in Menu(a) :
                    /\ calculate_file_hash(File(c)) = e.file_hash
                    /\ PayloadsById(RowsOf(ctags, a)) = TagLines(c)

\* the file has moved on from the content that is indexed
C4_Witness ==
    \E a \in Artifacts : \E e \in indexed_apis :
        /\ e.api_name = a
        /\ RowsOf(ctags, a) # {}
        /\ Exists(a)
        /\ e.file_hash # calculate_file_hash(files[a])
        /\ pc = "loop"

\* C5: index_apis classifies an artifact as changed exactly when no hash
\* is stored for it or the stored hash differs from the hash of its file;
\* index_api_file is called for changed artifacts only, for each of them
\* once the run has got through its loop, and the rows and the stored
\* hash of a skipped artifact stay as they were.
C5_DecisionRule ==
    (caller = "index_apis" /\ pc # "idle" /\ result.error # "no_files") =>
        LET changed == {a \in Artifacts :
                          /\ Exists(a)
                          /\ ~\E e \in start.indexed_apis :
                                /\ e.api_name = a
                                /\ e.file_hash = calculate_file_hash(files[a])}
            called == {files_to_index[i] : i \in 1..pos}
        IN  /\ {files_to_index[i] : i \in DOMAIN files_to_index} = changed
            /\ Len(files_to_index) = Cardinality(changed)
            /\ called \subseteq changed
            /\ (pc = "summary" \/ (pc = "returned" /\ result.ok))
                  => called = changed
            /\ \A a \in Artifacts \ changed :
                 /\ RowsOf(ctags, a) = RowsOf(start.ctags, a)
                 /\ {e \in indexed_apis : e.api_name = a}
                      = {e \in start.indexed_apis : e.api_name = a}

\* one artifact re-ingested, the other one skipped with its rows
C5_Witness ==
    /\ caller = "index_apis" /\ pc = "returned" /\ result.ok
    /\ Len(files_to_index) = 1
    /\ RowsOf(start.ctags, files_to_index[1]) # {}
    /\ RowsOf(ctags, Other(files_to_index[1])) # {}
    /\ Exists(Other(files_to_index[1]))

\* C6: while an operation re-ingests an artifact, the committed rows of
\* any artifact are the whole of what it had when the operation began, or
\* contain none of those rows; and when they contain none they are empty
\* or the whole of the new content.
C6_NoMix ==
    pc # "idle" =>
        \A a \in Artifacts :
            LET old == RowsOf(start.ctags, a)
                now == RowsOf(ctags, a)
            IN  \/ now = old
                \/ /\ now \cap old = {}
                   /\ \/ now = {}
                      \/ PayloadsById(now) = TagLines(files[a].lines)

\* between the two commits of a re-ingestion: the old rows are gone
C6_Witness ==
    /\ pc = "cleared"
    /\ RowsOf(start.ctags, last.api) # {}
    /\ RowsOf(ctags, last.api) = {}
    /\ TagLines(files[last.api].lines) # <<>>

\* C7: whenever index_api_file has read an artifact that has malformed
\* lines, it has returned normally, counted every non-blank line in
\* line_count and only the tag lines in processed_count, stored every tag
\* record of the file, and stored the hash of the file.
C7_MalformedNeverAbort ==
    (/\ last.done
     /\ last.error # "OSError"
     /\ \E i \in DOMAIN files[last.api].lines :
           IsMalformed(files[last.api].lines[i])
     /\ \A i \in DOMAIN files[last.api].lines :
           IsTagLine(files[last.api].lines[i])
              => PartIndex(files[last.api].lines[i].path, last.api) # 0)
    =>
        LET ls == files[last.api].lines
        IN  /\ last.error = ""
            /\ last.line_count = Len(SelectSeq(ls, IsNonBlank))
            /\ last.processed_count = Len(TagLines(ls))
            /\ PayloadsById(RowsOf(ctags, last.api)) = TagLines(ls)
            /\ get_stored_file_hash(indexed_apis, last.api)
                  = <<calculate_file_hash(files[last.api])>>

Paginated == {"search_declarations", "list_api_files", "list_functions_by_file"}

\* A paginated query has been answered.
Answered ==
    pc = "returned" /\ request.op \in Paginated /\ result.returns = "dict"

\* What a query matches in the committed store when offset and limit are
\* left aside: rows, or for list_api_files the distinct paths.
MatchSet(req) ==
    IF req.op = "list_functions_by_file"
    THEN {r \in ctags : /\ r.input_file = req.key
                        /\ r.kind \in {"function", "prototype", "func"}}
    ELSE IF req.op = "list_api_files"
    THEN {r.input_file : r \in
             {q \in ctags : q.api_file = req.key /\ q.input_file # <<>>}}
    ELSE {r \in ctags : req.key \in Tokens(r.raw_data)}

Total(req) == Cardinality(MatchSet(req))

\* What the items of an answer are taken from: the rows or paths of the
\* page the operation's SELECT returns for the request at some offset.
PageOf(req, offset) ==
    IF req.op = "list_functions_by_file"
    THEN FunctionRows(Committed, req.plan, req.key, offset, req.limit)
    ELSE IF req.op = "list_api_files"
    THEN list_api_files(Committed, req.key, offset, req.limit).items
    ELSE SearchRows(Committed, req.key, offset, req.limit)

\* The pages at offsets offset, offset + limit, ... up to the first one
\* that is empty or short, one after the other.
RECURSIVE AllPages(_, _)
AllPages(req, offset) ==
    LET page == PageOf(req, offset)
    IN  IF Len(page) < req.limit \/ offset > Total(req)
        THEN page
        ELSE page \o AllPages(req, offset + req.limit)

\* C8 as the spec states it: the count of an answer is the number of
\* matches there are when offset and limit are left aside.
C8_TotalCount ==
    Answered => result.count = Total(request)

\* C8, amended: the count of an answer is the number of items on the
\* returned page; it is never more than the number of all matches and
\* equals it only when the page holds them all (there is no match, or
\* offset <= 0 and limit is negative or at least the number of matches).
C8_PageCount ==
    Answered =>
        /\ result.count = Len(result.items)
        /\ result.count <= Total(request)
        /\ result.count = Total(request)
             <=> \/ Total(request) = 0
                 \/ /\ request.offset <= 0
                    /\ request.limit < 0 \/ request.limit >= Total(request)

\* three functions in the file, offset 0, limit 2: two names, count 2
C8_Witness ==
    /\ Answered
    /\ request.op = "list_functions_by_file"
    /\ Total(request) = 3
    /\ request.offset = 0 /\ request.limit = 2
    /\ result.count = 2

\* C9: for a limit of at least 1 the answer has at most limit items, and
\* the pages at offsets 0, limit, 2*limit, ... up to the first empty or
\* short one hold every match exactly once: as many items as there are
\* matches, and each match among them; no page is longer than limit.
C9_PagesPartition ==
    (Answered /\ request.limit >= 1) =>
        LET all == AllPages(request, 0)
        IN  /\ Len(result.items) <= request.limit
            /\ Len(all) = Total(request)
            /\ {all[i] : i \in DOMAIN all} = MatchSet(request)
            /\ \A k \in 0..Total(request) :
                 Len(PageOf(request, k * request.limit)) <= request.limit

\* the second, short page of three matches read in pages of two
C9_Witness ==
    /\ Answered
    /\ request.op = "search_declarations"
    /\ request.limit = 2 /\ request.offset = 2
    /\ Total(request) = 3
    /\ Len(result.items) = 1

\* The k-th match of list_api_files or list_functions_by_file in the order
\* of the query: the path with k - 1 matching paths before it, or the name
\* of the row with k - 1 matching rows before it (by line, rows of equal
\* line in scan order).
ItemAt(req, k) ==
    IF req.op = "list_api_files"
    THEN CHOOSE x \in MatchSet(req) :
            Cardinality({y \in MatchSet(req) : PathBefore(y, x)}) = k - 1
    ELSE (CHOOSE r \in MatchSet(req) :
            Cardinality({q \in MatchSet(req) : LineBefore(req.plan, q, r)})
                = k - 1).name

\* C10: list_api_files and list_functions_by_file, called with offset >= 0
\* and limit >= 0 where there are N matches, return
\* min(limit, max(0, N - offset)) items, namely the matches at positions
\* offset .. offset + limit - 1 of the ordered matches (counted from 0),
\* and return the offset and the limit they were called with.
C10_PageWindow ==
    (/\ Answered
     /\ request.op \in {"list_api_files", "list_functions_by_file"}
     /\ request.offset >= 0 /\ request.limit >= 0)
    =>
        /\ Len(result.items)
             = Min(request.limit, Max(0, Total(request) - request.offset))
        /\ \A i \in DOMAIN result.items :
             result.items[i] = ItemAt(request, request.offset + i)
        /\ result.offset = request.offset
        /\ result.limit = request.limit

\* the middle one of three functions, two of them without a line
C10_Witness ==
    /\ Answered
    /\ request.op = "list_functions_by_file"
    /\ request.offset = 1 /\ request.limit = 1
    /\ Total(request) = 3
    /\ Len(result.items) = 1
    /\ \E r, q \in MatchSet(request) : r # q /\ r.line = q.line


\* The query operations.
Queries == Paginated \cup {"lookup", "list_indexed_apis"}

\* A query has returned or raised, and nothing in the committed store
\* matches it: no row of that name, no row with the term, no indexed api,
\* no path of the api, no callable in the file.
NothingMatches ==
    /\ pc = "returned"
    /\ request.op \in Queries
    /\ IF request.op = "lookup"
       THEN {r \in ctags : r.name = request.key} = {}
       ELSE IF request.op = "list_indexed_apis"
       THEN indexed_apis = {}
       ELSE MatchSet(request) = {}

\* C11 as the spec states it: a query that matches nothing returns an
\* empty result set together with a count of 0, never an error and never
\* an absent value.
C11_NotFoundEmpty ==
    NothingMatches =>
        /\ result.returns = "dict"
        /\ result.items = <<>>
        /\ result.count = 0

\* C11, amended: a query that matches nothing returns no item, and
\* what comes with it depends on the operation: the three paginated
\* operations return a dictionary with count 0 (search_declarations only
\* for a query string FTS5 accepts, it raises on the others), lookup
\* returns None, list_indexed_apis a dictionary with a message and no
\* count.
C11_NotFound ==
    NothingMatches =>
        /\ result.items = <<>>
        /\ result.returns =
              IF request.op = "lookup" THEN "None"
              ELSE IF request.op = "list_indexed_apis" THEN "dict_no_count"
              ELSE IF request.op = "search_declarations"
                      /\ FtsRejects(request.key) THEN "raise"
              ELSE "dict"
        /\ result.returns = "dict" => result.count = 0 /\ result.ok

\* lookup of a name no row has, in a store that has rows
C11_Witness ==
    /\ NothingMatches
    /\ request.op = "lookup"
    /\ ctags # {}
    /\ result.returns = "None"

\* The operations registered as tools of the server.
ToolOps == {"search_declarations", "list_indexed_apis", "list_api_files",
            "list_functions_by_file", "generate_ctags"}

\* C12: a tool never raises: whatever it is called with, it returns a
\* dictionary (matches and count, or success: False and an error).
C12_NeverRaises ==
    (pc = "returned" /\ caller \in ToolOps) =>
        result.returns \in {"dict", "dict_no_count"}

\* The limit search_declarations is called with when none is given.
DefaultLimit == 10

\* The terms that occur in the tag lines of the model.
TagTerms ==
    UNION {Tokens(LineAlphabet[i]) :
              i \in {j \in DOMAIN LineAlphabet : IsTagLine(LineAlphabet[j])}}

\* The rows of a ctags table whose raw_data holds the term.
Holding(rows, term) == {r \in rows : term \in Tokens(r.raw_data)}

EmptyArtifact(ls) ==
    \A i \in DOMAIN ls :
        ls[i].json = "blank" \/ (ls[i].json = "object" /\ ls[i].type # "tag")

\* C14: index_api_file on an artifact without tag records returns
\* normally, leaves no row for the artifact and stores its hash, so that
\* the artifact counts as up to date; and an index_apis run that finds
\* such an artifact with its hash stored and no rows does not hand it
\* to index_api_file.
C14_EmptyArtifact ==
    /\ (Ingested /\ EmptyArtifact(files[last.api].lines)) =>
          /\ RowsOf(ctags, last.api) = {}
          /\ last.processed_count = 0
          /\ get_stored_file_hash(indexed_apis, last.api)
                = <<calculate_file_hash(files[last.api])>>
          /\ UpToDate(indexed_apis, last.api)
    /\ (caller = "index_apis" /\ pc # "idle") =>
          \A a \in Artifacts :
              ( /\ Exists(a)
                /\ EmptyArtifact(files[a].lines)
                /\ RowsOf(start.ctags, a) = {}
                /\ get_stored_file_hash(start.indexed_apis, a)
                      = <<calculate_file_hash(files[a])>> )
              => \A i \in DOMAIN files_to_index : files_to_index[i] # a

\* an index_apis run has returned that skipped an artifact of a blank
\* and a non-tag line, ingested by an earlier run, and ingested the other
C14_Witness ==
    /\ caller = "index_apis" /\ pc = "returned" /\ result.ok
    /\ \E a \in Artifacts :
         /\ Exists(a)
         /\ files[a].lines # <<>>
         /\ EmptyArtifact(files[a].lines)
         /\ RowsOf(ctags, a) = {}
         /\ get_stored_file_hash(start.indexed_apis, a)
               = <<calculate_file_hash(files[a])>>
         /\ files_to_index = <<Other(a)>>

\* C15: the names list_functions_by_file returns are the names of
\* distinct rows whose input_file is file_path and whose kind is function,
\* prototype or func, in ascending order of line (a row without a line
\* before the others); no other row contributes a name, and when offset
\* and limit cut nothing off every such row contributes one.
C15_FunctionsOfFile ==
    (pc = "returned" /\ request.op = "list_functions_by_file") =>
        LET rows == {r \in ctags :
                       /\ r.input_file = request.key
                       /\ r.kind \in {"function", "prototype", "func"}}
            whole == /\ request.offset <= 0
                     /\ request.limit < 0
                          \/ request.limit >= Cardinality(rows)
        IN  /\ result.returns = "dict"
            /\ \E f \in [DOMAIN result.items -> rows] :
                 /\ \A i, j \in DOMAIN f : i # j => f[i] # f[j]
                 /\ \A i \in DOMAIN f : result.items[i] = f[i].name
                 /\ \A i, j \in DOMAIN f : i < j => f[i].line <= f[j].line
            /\ whole => Len(result.items) = Cardinality(rows)

\* a file with a prototype without a line indexed after a function on
\* line 1, and a variable: the prototype first, the variable left out
C15_Witness ==
    /\ pc = "returned" /\ request.op = "list_functions_by_file"
    /\ request.offset = 0 /\ request.limit = MaxPage
    /\ \E r \in ctags : r.input_file = request.key /\ r.kind = "variable"
    /\ \E r \in ctags : r.input_file # request.key /\ r.kind = "function"
    /\ result.items = <<"g", "f">>

\* C16: the paths list_api_files returns are input_file values, not
\* empty, of rows of the api asked for, in strictly ascending order (so
\* none comes twice); when offset and limit cut nothing off, every such
\* value is among them.
C16_FilesOfApi ==
    (pc = "returned" /\ request.op = "list_api_files") =>
        LET paths == {r.input_file : r \in RowsOf(ctags, request.key)} \ {<<>>}
            whole == /\ request.offset <= 0
                     /\ request.limit < 0
                          \/ request.limit >= Cardinality(paths)
        IN  /\ result.returns = "dict"
            /\ \A i \in DOMAIN result.items : result.items[i] \in paths
            /\ \A i, j \in DOMAIN result.items :
                 i < j => PathBefore(result.items[i], result.items[j])
            /\ whole => {result.items[i] : i \in DOMAIN result.items} = paths

\* three rows of A in two files, x.h indexed first, and rows of B: the
\* two paths of A, a.h before x.h
C16_Witness ==
    /\ pc = "returned" /\ request.op = "list_api_files"
    /\ request.key = "A"
    /\ Cardinality(RowsOf(ctags, "A")) = 3
    /\ RowsOf(ctags, "B") # {}
    /\ result.items = << <<"A", "a.h">>, <<"A", "x.h">> >>

\* C17: lookup returns as many matches as there are rows, of whatever
\* api, whose name is the query character for character, each match
\* bearing that name; a row whose name differs, if only in case,
\* gives no match, and with no row of the name lookup returns None.
C17_ExactLookup ==
    (pc = "returned" /\ request.op = "lookup") =>
        LET rows == {r \in ctags : r.name = request.key}
        IN  /\ Len(result.items) = Cardinality(rows)
            /\ \A i \in DOMAIN result.items :
                 result.items[i].name = request.key
            /\ result.returns = IF rows = {} THEN "None" ELSE "list"

\* f is the name of two rows of A and one of B, g of another row: three
\* matches
C17_Witness ==
    /\ pc = "returned" /\ request.op = "lookup"
    /\ request.key = "f"
    /\ Cardinality({r \in RowsOf(ctags, "A") : r.name = "f"}) = 2
    /\ Cardinality({r \in RowsOf(ctags, "B") : r.name = "f"}) = 1
    /\ \E r \in ctags : r.name = "g"
    /\ Len(result.items) = 3

\* An index_api_file call has raised inside the loop over the lines,
\* after it had inserted at least one tag record.
FailedMidParse ==
    /\ last.done
    /\ last.error \in {"AttributeError", "ValueError"}
    /\ last.processed_count >= 1

\* The tag lines index_api_file got through before it raised: the first
\* processed_count tag lines of the file, less the one the ValueError
\* arose on (counted before its path was looked at).
InsertedBeforeFailure ==
    SubSeq(TagLines(files[last.api].lines), 1,
           IF last.error = "ValueError" THEN last.processed_count - 1
           ELSE last.processed_count)

\* C18 as the spec states it: when index_api_file fails part-way, the
\* tag records parsed before the failure are committed and are the rows
\* of the artifact afterwards.
C18_PartialCommit ==
    FailedMidParse =>
        PayloadsById(RowsOf(ctags, last.api)) = InsertedBeforeFailure

\* C18, amended: when index_api_file fails part-way, the transaction of
\* the inserts is rolled back: no row of the failed run is committed,
\* the artifact is left with no row, no FTS entry and no stored hash.
C18_RolledBack ==
    FailedMidParse =>
        /\ RowsOf(ctags, last.api) = {}
        /\ \A e \in ctags_fts : \E r \in ctags : r.id = e.rowid
        /\ get_stored_file_hash(indexed_apis, last.api) = <<>>

\* a tag line, then a line that is JSON but no object, in an artifact
\* that had rows: the run raised after one insert
C18_Witness ==
    /\ FailedMidParse
    /\ last.error = "AttributeError"
    /\ InsertedBeforeFailure # <<>>
    /\ RowsOf(start.ctags, last.api) # {}

\* C19: when index_api_file raises after its clear has committed,
\* whatever the exception (the file cannot be opened, or a line aborts
\* the loop), the artifact is left with no row at all: the rows it had
\* before the call are gone and none has taken their place.
C19_ClearIsDestructive ==
    (last.done /\ last.error # "") =>
        /\ RowsOf(ctags, last.api) = {}
        /\ ctags \cap RowsOf(start.ctags, last.api) = {}
        /\ \A e \in ctags_fts : \E r \in ctags \ RowsOf(ctags, last.api) :
                                   r.id = e.rowid

\* the file of an artifact that had rows could not be opened
C19_Witness ==
    /\ last.done
    /\ last.error = "OSError"
    /\ RowsOf(start.ctags, last.api) # {}
    /\ RowsOf(ctags, last.api) = {}

\* C20: once two concurrent index_api_file calls for the same artifact
\* have both returned, the artifact has the tag records of its file once
\* each, in file order, and one stored hash, that of the file.
C20_OneGeneration ==
    ( /\ writers # NoWriters
      /\ \A w \in Writers : writers[w].pc = "done" /\ writers[w].error = ""
      /\ writers["w1"].api = writers["w2"].api ) =>
        LET a == writers["w1"].api
        IN  /\ PayloadsById(RowsOf(ctags, a)) = TagLines(files[a].lines)
            /\ Cardinality({e \in indexed_apis : e.api_name = a}) = 1
            /\ get_stored_file_hash(indexed_apis, a)
                  = <<calculate_file_hash(files[a])>>

\* C21: when an index_api_file call has raised, no hash is stored for
\* its artifact, which therefore does not count as up to date; an
\* index_apis run hands every artifact that has a file and no stored
\* hash to index_api_file; and in every state a stored hash of an
\* artifact is the hash of a content whose tag records are the rows of
\* the artifact.
C21_FailedIsRetried ==
    /\ (last.done /\ last.error # "") =>
          /\ get_stored_file_hash(indexed_apis, last.api) = <<>>
          /\ ~UpToDate(indexed_apis, last.api)
    /\ (caller = "index_apis" /\ pc # "idle" /\ result.error # "no_files") =>
          \A a \in Artifacts :
              (Exists(a) /\ get_stored_file_hash(start.indexed_apis, a) = <<>>)
              => \E i \in DOMAIN files_to_index : files_to_index[i] = a
    /\ \A a \in Artifacts : \A e \in indexed_apis :
          e.api_name = a =>
              \E c \in Menu(a) :
                  /\ e.file_hash = calculate_file_hash(File(c))
                  /\ PayloadsById(RowsOf(ctags, a)) = TagLines(c)

\* an index_apis run raised on an artifact that was indexed before the
\* run: its rows and its hash are gone
C21_Witness ==
    /\ caller = "index_apis"
    /\ last.done /\ last.error # ""
    /\ get_stored_file_hash(start.indexed_apis, last.api) # <<>>
    /\ RowsOf(start.ctags, last.api) # {}
    /\ get_stored_file_hash(indexed_apis, last.api) = <<>>

\* The errors generate_ctags reports when no tags file was produced.
ExtractorErrors == {"not_exist", "not_dir", "not_found", "failed"}

\* C22: when generate_ctags has returned because the directory does not
\* exist or is no directory, ctags was not found or ctags exited
\* non-zero, it has returned a dictionary with success False and the
\* error of that case, index_api_file has not been called, and ctags,
\* ctags_fts, indexed_apis and the id counter are what they were when it
\* was called.
C22_ExtractorFailure ==
    (caller = "generate_ctags" /\ pc = "returned"
        /\ result.error \in ExtractorErrors) =>
        /\ result.returns = "dict"
        /\ ~result.ok
        /\ last = NoReport
        /\ files_to_index = <<>>
        /\ Snapshot = start

\* ctags was not found, with rows in the store
C22_Witness ==
    /\ caller = "generate_ctags" /\ pc = "returned"
    /\ result.error = "not_found"
    /\ ~result.ok
    /\ ctags # {}
    /\ ctags = start.ctags

\* The artifact the next step of the running operation works on: the one
\* index_api_file is about to clear, or has cleared and is about to fill.
Target ==
    IF pc = "loop" /\ pos < Len(files_to_index) THEN files_to_index[pos + 1]
    ELSE IF pc = "cleared" THEN files_to_index[pos]
    ELSE ""

\* The FTS entries of the rows of an artifact.
FtsOf(fts, rows, a) == {e \in fts : \E r \in RowsOf(rows, a) : r.id = e.rowid}

\* C23: a step of index_api_file for one artifact, the commit of its
\* clear or the commit or rollback of its inserts, leaves every other
\* artifact its rows with their ids, their FTS entries and its stored
\* hash; no other step changes those of any artifact.
C23_OthersUntouched ==
    [][\A b \in Artifacts :
          b # Target =>
             /\ RowsOf(ctags', b) = RowsOf(ctags, b)
             /\ FtsOf(ctags_fts', ctags', b) = FtsOf(ctags_fts, ctags, b)
             /\ {e \in indexed_apis' : e.api_name = b}
                  = {e \in indexed_apis : e.api_name = b}]_vars

\* index_api_file for one artifact has raised after its clear, and the
\* other artifact has the rows and the hash it had
C23_Witness ==
    /\ last.done /\ last.error # ""
    /\ RowsOf(start.ctags, last.api) # {}
    /\ RowsOf(ctags, Other(last.api)) # {}
    /\ RowsOf(ctags, Other(last.api)) = RowsOf(start.ctags, Other(last.api))
    /\ get_stored_file_hash(indexed_apis, Other(last.api)) # <<>>

\* What list_indexed_apis returns on the committed store.
Listed == list_indexed_apis(OrderByIndexedAt(indexed_apis)).items

\* A sequence of names with every occurrence of a name taken out.
Without(names, a) == SelectSeq(names, LAMBDA x : x # a)

C25_FreshIds ==
    [][/\ seq'.ctags >= seq.ctags
       /\ \A r \in ctags' : r.id <= seq'.ctags
       /\ \A r \in ctags' \ ctags : r.id > seq.ctags
       /\ \A r, q \in ctags' : r.id = q.id => r = q
       /\ \A e \in ctags_fts' :
            \E r \in ctags' : r.id = e.rowid /\ r.raw_data = e.raw_data]_vars

\* an artifact with rows has been ingested again: its new rows have ids
\* above those of all rows there were, the deleted ones included
C25_Witness ==
    /\ Ingested
    /\ RowsOf(start.ctags, last.api) # {}
    /\ RowsOf(ctags, last.api) # {}
    /\ \A r \in RowsOf(ctags, last.api) : \A q \in start.ctags : r.id > q.id
    /\ seq.ctags > Cardinality(ctags)

====
